---- MODULE Spec2Model ----
(***************************************************************************)
(* Model of SemanticSearchEngine (semantic-search/search.py): construction *)
(* (load_documents, load_or_compute_embeddings), vector_search and search. *)
(*                                                                         *)
(* Floats are fixed-point integers in units of 1e-5 (One = 1.0), with a    *)
(* separate value NaN that compares as IEEE NaN does.  Strings that are    *)
(* inspected character by character (the query) are sequences of           *)
(* one-character strings.  An optional value (None or a value) is a set    *)
(* with zero or one element.                                               *)
(*                                                                         *)
(* search is a synchronous call: Search runs the whole method and leaves   *)
(* its result (request, outcome, response, and the locals query_embedding  *)
(* and candidates) in the state; Return hands the result to the caller,    *)
(* after which the next call can start.  failures is a history variable:   *)
(* the number of searches so far in which get_embedding raised.            *)
(***************************************************************************)
EXTENDS Integers, Sequences, FiniteSets, TLC

VARIABLES pc, dataFile, cache, documents, embeddings, initCalls,
          request, outcome, response, query_embedding, candidates, searchCalls,
          failures

vars == <<pc, dataFile, cache, documents, embeddings, initCalls,
          request, outcome, response, query_embedding, candidates, searchCalls,
          failures>>

(* ------------------------------ bounds --------------------------------- *)
MaxCache == 3
MaxK == 3
MaxRerankK == 2
MaxLatency == 1
MaxFailures == 1

(* ------------------------------ values --------------------------------- *)
None == {}
Some(x) == {x}
The(s) == CHOOSE x \in s : TRUE

One == 100000
NaN == 0 - (10 * One)
IsNaN(x) == x = NaN

\* float comparisons and negation, IEEE semantics for NaN
FloatLT(a, b) == IF IsNaN(a) \/ IsNaN(b) THEN FALSE ELSE a < b
FloatEq(a, b) == IF IsNaN(a) \/ IsNaN(b) THEN FALSE ELSE a = b
FloatNeg(a) == IF IsNaN(a) THEN NaN ELSE 0 - a

\* Python's min(a, b) and max(a, b): the first argument unless the second
\* compares strictly smaller (larger)
PyMin(a, b) == IF FloatLT(b, a) THEN b ELSE a
PyMax(a, b) == IF FloatLT(a, b) THEN b ELSE a

\* round(x, 4) of a float in [0.0, 1.0]: to the nearest multiple of 1e-4,
\* an exact tie to the even one
Round4(x) ==
    LET q == x \div 10
        r == x % 10
    IN  IF r < 5 THEN q * 10
        ELSE IF r > 5 THEN (q + 1) * 10
        ELSE IF q % 2 = 0 THEN q * 10 ELSE (q + 1) * 10

\* dict.get(key, default)
Get(d, key, default) == IF key \in DOMAIN d THEN d[key] ELSE default

(* ---------------------------- input domains ---------------------------- *)
\* documents of the corpus file: title and source are optional keys
Doc1 == [id |-> 1, content |-> "alpha", title |-> "A", source |-> "web"]
Doc2 == [id |-> 2, content |-> "beta"]
Doc3 == [id |-> 3, content |-> "gamma", title |-> "C"]

\* s[:n] for n >= 0
Slice(s, n) == SubSeq(s, 1, IF n < Len(s) THEN n ELSE Len(s))

RECURSIVE SeqsUpTo(_, _)
SeqsUpTo(S, n) ==
    IF n = 0 THEN { <<>> }
    ELSE LET shorter == SeqsUpTo(S, n - 1)
         IN  shorter \cup { Append(s, x) : s \in { t \in shorter : Len(t) = n - 1 }, x \in S }

\* the corpus file holds a prefix of one of two load orders
CorpusOrders == { <<Doc2, Doc1, Doc3>>, <<Doc1, Doc3, Doc2>> }
Corpora == UNION { { Slice(order, n) : n \in 0..Len(order) } : order \in CorpusOrders }

\* embedding vectors of documents and of queries, by name
DVecs == { "v1", "v2", "v3" }
QVecs == { "q1", "q2" }
EmbeddingUnavailable == "EmbeddingUnavailable"

Caches == { None } \cup { Some(s) : s \in SeqsUpTo(DVecs, MaxCache) }

Queries == { <<>>, <<" ">>, <<" ", "\t">>, <<"a">>, <<" ", "a", " ">> }
Whitespace == { " ", "\t", "\n" }

(* ----------------------------- collaborators --------------------------- *)
\* embeddings.cosine_similarity: the raw similarity of a query vector and a
\* document vector, anomalies included (NaN, negative, above 1.0)
cosine_similarity(q, v) ==
    CASE q = "q1" /\ v = "v1" -> NaN
      [] q = "q1" /\ v = "v2" -> 33333
      [] q = "q1" /\ v = "v3" -> 0
      [] q = "q2" /\ v = "v1" -> 0 - 50000
      [] q = "q2" /\ v = "v2" -> 3125
      [] q = "q2" /\ v = "v3" -> One + 2

\* embeddings.compute_document_embeddings: one vector per document, same order
DocVector(doc) == CASE doc.id = 1 -> "v1" [] doc.id = 2 -> "v2" [] doc.id = 3 -> "v3"
compute_document_embeddings(docs) == [i \in 1..Len(docs) |-> DocVector(docs[i])]

(* ------------------------------ vector_search -------------------------- *)
\* the loop of vector_search: one candidate per embedding, documents[i] read
\* for each; raises IndexError when there are more embeddings than documents
VectorSearchRaises(docs, embs) == Len(embs) > Len(docs)

Similarities(docs, embs, q) ==
    [i \in 1..Len(embs) |->
        [id |-> docs[i].id,
         score |-> cosine_similarity(q, embs[i]),
         content |-> docs[i].content,
         title |-> Get(docs[i], "title", ""),
         source |-> Get(docs[i], "source", "")]]

\* key=lambda x: (-x['score'], x['id']) and the tuple comparison a < b:
\* the first position where the tuples are not equal decides
SortKey(x) == <<FloatNeg(x.score), x.id>>
KeyLT(a, b) == IF FloatEq(a[1], b[1]) THEN a[2] < b[2] ELSE FloatLT(a[1], b[1])
ItemLT(x, y) == KeyLT(SortKey(x), SortKey(y))

\* list.sort for a list shorter than 64 items: the leading run (ascending,
\* or strictly descending and then reversed) followed by binary insertion
Reverse(s) == [i \in 1..Len(s) |-> s[Len(s) + 1 - i]]

RECURSIVE RunEnd(_, _, _)
RunEnd(s, i, descending) ==
    IF i = Len(s) THEN i
    ELSE IF descending = ItemLT(s[i + 1], s[i]) THEN RunEnd(s, i + 1, descending)
    ELSE i

CountRun(s) ==
    IF Len(s) < 2 THEN [n |-> Len(s), descending |-> FALSE]
    ELSE LET descending == ItemLT(s[2], s[1])
         IN  [n |-> RunEnd(s, 2, descending), descending |-> descending]

RECURSIVE BinarySearch(_, _, _, _)
BinarySearch(s, pivot, l, r) ==
    IF l >= r THEN l
    ELSE LET p == l + ((r - l) \div 2)
         IN  IF ItemLT(pivot, s[p + 1]) THEN BinarySearch(s, pivot, l, p)
             ELSE BinarySearch(s, pivot, p + 1, r)

RECURSIVE BinarySort(_, _)
BinarySort(sorted, rest) ==
    IF rest = <<>> THEN sorted
    ELSE LET pivot == Head(rest)
             l == BinarySearch(sorted, pivot, 0, Len(sorted))
         IN  BinarySort(SubSeq(sorted, 1, l) \o <<pivot>> \o SubSeq(sorted, l + 1, Len(sorted)),
                        Tail(rest))

ListSort(s) ==
    LET run == CountRun(s)
        lead == SubSeq(s, 1, run.n)
    IN  BinarySort(IF run.descending THEN Reverse(lead) ELSE lead,
                   SubSeq(s, run.n + 1, Len(s)))

\* variant: the [:k] slice left out
VectorSearch_NoSlice(docs, embs, q, k) == ListSort(Similarities(docs, embs, q))

VectorSearch(docs, embs, q, k) == Slice(ListSort(Similarities(docs, embs, q)), k)

(* -------------------------------- search ------------------------------- *)
\* str.strip() and the empty-query test
RECURSIVE LStrip(_)
LStrip(s) == IF s # <<>> /\ Head(s) \in Whitespace THEN LStrip(Tail(s)) ELSE s
Strip(s) == Reverse(LStrip(Reverse(LStrip(s))))
\* variant: the strip() test left out
IsEmptyQuery_NoStrip(query) == query = <<>>

IsEmptyQuery(query) == query = <<>> \/ Strip(query) = <<>>

EmptyResponse(docs) ==
    [results |-> <<>>,
     reranked |-> FALSE,
     metrics |-> [latency |-> 0, totalDocs |-> Len(docs)]]

\* variant: rerank_k ignored
SelectResults_IgnoreRerankK(cands, k, rerank, rerank_k) == Slice(cands, k)

SelectResults(cands, k, rerank, rerank_k) ==
    IF rerank THEN Slice(cands, rerank_k) ELSE Slice(cands, k)

\* float(r.get('score', 0.0) or 0.0): a falsy score (0.0) is replaced by 0.0
RawScore(r) == LET s == Get(r, "score", 0) IN IF s = 0 THEN 0 ELSE s
\* variant: no clamp into [0.0, 1.0]
FormatScore_NoClamp(r) == Round4(IF IsNaN(RawScore(r)) THEN 0 ELSE RawScore(r))

FormatScore(r) ==
    Round4(PyMax(0, PyMin(One, IF IsNaN(RawScore(r)) THEN 0 ELSE RawScore(r))))

\* variant: title and source not nested under metadata
FormatResult_Flat(r) ==
    [id |-> r.id,
     score |-> FormatScore(r),
     content |-> r.content,
     title |-> Get(r, "title", ""),
     source |-> Get(r, "source", "")]

FormatResult(r) ==
    [id |-> r.id,
     score |-> FormatScore(r),
     content |-> r.content,
     metadata |-> [title |-> Get(r, "title", ""), source |-> Get(r, "source", "")]]

FormatResponse(results, rerank, latency, docs) ==
    [results |-> [i \in 1..Len(results) |-> FormatResult(results[i])],
     reranked |-> rerank,
     metrics |-> [latency |-> latency, totalDocs |-> Len(docs)]]

(* -------------------------------- actions ------------------------------ *)
Init ==
    /\ pc = "new"
    /\ dataFile \in Corpora
    /\ cache \in Caches
    /\ documents = <<>>
    /\ embeddings = <<>>
    /\ initCalls = <<>>
    /\ request = None
    /\ outcome = "idle"
    /\ response = None
    /\ query_embedding = None
    /\ candidates = None
    /\ searchCalls = <<>>
    /\ failures = 0

LoadDocuments ==
    /\ pc = "new"
    /\ documents' = dataFile
    /\ pc' = "documents_loaded"
    /\ UNCHANGED <<dataFile, cache, embeddings, initCalls,
                   request, outcome, response, query_embedding, candidates, searchCalls,
                   failures>>

\* variant: the cache is ignored, embeddings are always recomputed and saved
LoadOrComputeEmbeddings_AlwaysCompute ==
    /\ pc = "documents_loaded"
    /\ embeddings' = compute_document_embeddings(documents)
    /\ cache' = Some(embeddings')
    /\ initCalls' = <<"load_embeddings", "compute_document_embeddings", "save_embeddings">>
    /\ pc' = "ready"
    /\ UNCHANGED <<dataFile, documents,
                   request, outcome, response, query_embedding, candidates, searchCalls,
                   failures>>

LoadOrComputeEmbeddings ==
    /\ pc = "documents_loaded"
    /\ IF cache = None
       THEN /\ embeddings' = compute_document_embeddings(documents)
            /\ cache' = Some(embeddings')
            /\ initCalls' = <<"load_embeddings", "compute_document_embeddings", "save_embeddings">>
       ELSE /\ embeddings' = The(cache)
            /\ cache' = cache
            /\ initCalls' = <<"load_embeddings">>
    /\ pc' = "ready"
    /\ UNCHANGED <<dataFile, documents,
                   request, outcome, response, query_embedding, candidates, searchCalls,
                   failures>>

Search ==
    /\ pc = "ready"
    /\ outcome = "idle"
    /\ \E query \in Queries, k \in 0..MaxK, rerank \in BOOLEAN, rerank_k \in 0..MaxRerankK :
        /\ request' = Some([query |-> query, k |-> k, rerank |-> rerank, rerank_k |-> rerank_k])
        /\ IF IsEmptyQuery(query)
           THEN /\ outcome' = "returned"
                /\ response' = Some(EmptyResponse(documents))
                /\ query_embedding' = None
                /\ candidates' = None
                /\ searchCalls' = <<>>
                /\ failures' = failures
           ELSE \E embedding \in QVecs \cup { EmbeddingUnavailable } :
                IF embedding = EmbeddingUnavailable
                THEN /\ failures < MaxFailures
                     /\ outcome' = EmbeddingUnavailable
                     /\ response' = None
                     /\ query_embedding' = None
                     /\ candidates' = None
                     /\ searchCalls' = <<"get_embedding">>
                     /\ failures' = failures + 1
                ELSE IF VectorSearchRaises(documents, embeddings)
                THEN /\ outcome' = "IndexError"
                     /\ response' = None
                     /\ query_embedding' = Some(embedding)
                     /\ candidates' = None
                     /\ searchCalls' = <<"get_embedding", "vector_search">>
                     /\ failures' = failures
                ELSE \E latency \in 0..MaxLatency :
                     LET cands == VectorSearch(documents, embeddings, embedding, k)
                     IN  /\ outcome' = "returned"
                         /\ query_embedding' = Some(embedding)
                         /\ candidates' = Some(cands)
                         /\ response' = Some(FormatResponse(SelectResults(cands, k, rerank, rerank_k),
                                                            rerank, latency, documents))
                         /\ searchCalls' = <<"get_embedding", "vector_search">>
                         /\ failures' = failures
    /\ UNCHANGED <<pc, dataFile, cache, documents, embeddings, initCalls>>

\* the caller receives the response or the exception of the finished call
Return ==
    /\ outcome # "idle"
    /\ outcome' = "idle"
    /\ request' = None
    /\ response' = None
    /\ query_embedding' = None
    /\ candidates' = None
    /\ searchCalls' = <<>>
    /\ UNCHANGED <<pc, dataFile, cache, documents, embeddings, initCalls, failures>>

Next == LoadDocuments \/ LoadOrComputeEmbeddings \/ Search \/ Return

Spec == Init /\ [][Next]_vars

(* ------------------------------ properties ----------------------------- *)
Req == The(request)
Resp == The(response)
Cands == The(candidates)
Returned == outcome = "returned"
Blank(query) == \A i \in 1..Len(query) : query[i] \in Whitespace
Ids(s) == [i \in 1..Len(s) |-> s[i].id]
Min(a, b) == IF a < b THEN a ELSE b

\* C1: once the engine is constructed, there is one embedding per document
C1_Alignment == pc = "ready" => Len(embeddings) = Len(documents)

\* C2: every score of a returned response lies in [0.0, 1.0] and has at
\* most 4 decimal digits (is a multiple of 1e-4)
C2_ScoreBounds ==
    Returned =>
        \A i \in 1..Len(Resp.results) :
            /\ 0 <= Resp.results[i].score
            /\ Resp.results[i].score <= One
            /\ Resp.results[i].score % 10 = 0

\* a response with a candidate whose raw similarity is above 1.0, one that
\* is negative, and one that has a fifth decimal digit
C2_Witness ==
    /\ Returned /\ candidates # None
    /\ \E i, j, l \in 1..Len(Resp.results) :
        /\ Cands[i].score > One /\ Resp.results[i].score = One
        /\ ~IsNaN(Cands[j].score) /\ Cands[j].score < 0 /\ Resp.results[j].score = 0
        /\ Cands[l].score % 10 # 0 /\ Resp.results[l].score > 0 /\ Resp.results[l].score < One

\* C3: the candidates vector_search returns are in descending order of
\* score, equal scores in ascending id order (candidates whose score is NaN
\* are left out of the comparison)
C3_Ordering ==
    candidates # None =>
        \A i, j \in 1..Len(Cands) :
            (i < j /\ ~IsNaN(Cands[i].score) /\ ~IsNaN(Cands[j].score)) =>
                /\ Cands[i].score >= Cands[j].score
                /\ Cands[i].score = Cands[j].score => Cands[i].id <= Cands[j].id

\* C4: a returned response has at most min(k, rerank_k if rerank else k,
\* totalDocs) results
C4_TopKBound ==
    Returned =>
        Len(Resp.results) <=
            Min(Req.k, Min(IF Req.rerank THEN Req.rerank_k ELSE Req.k, Len(documents)))

\* the corpus size is what bounds a non-empty result list
C4_Witness ==
    /\ Returned
    /\ Len(Resp.results) > 0
    /\ Len(Resp.results) = Len(documents)
    /\ Req.k > Len(documents)

ResponseShape(latencyField) ==
    /\ DOMAIN Resp = { "results", "reranked", "metrics" }
    /\ DOMAIN Resp.metrics = { latencyField, "totalDocs" }
    /\ \A i \in 1..Len(Resp.results) :
        /\ DOMAIN Resp.results[i] = { "id", "score", "content", "metadata" }
        /\ DOMAIN Resp.results[i].metadata = { "title", "source" }

C7_EmbeddingFailure ==
    [][ /\ outcome' = EmbeddingUnavailable =>
            /\ response' = None
            /\ searchCalls' = <<"get_embedding">>
            /\ documents' = documents
            /\ embeddings' = embeddings
        /\ (failures > 0 /\ query_embedding' # None) =>
            (outcome' = "returned" /\ response' # None)
      ]_vars

\* C8: when the similarity computed for a document is NaN, search returns a
\* response, and a result for such a document has score 0.0
C8_NaNClamp ==
    ( /\ query_embedding # None
      /\ \E i \in 1..Min(Len(embeddings), Len(documents)) :
            IsNaN(cosine_similarity(The(query_embedding), embeddings[i])) ) =>
        /\ Returned
        /\ \A j \in 1..Len(Resp.results) :
            IsNaN(Cands[j].score) => Resp.results[j].score = 0

\* C9: for a non-empty query the result ids are the first rerank_k (rerank
\* true) or the first k (rerank false) candidate ids in the same order,
\* reranked is the requested flag, and rerank_batch is not called
C9_BypassTopK ==
    (Returned /\ ~Blank(Req.query)) =>
        LET n == IF Req.rerank THEN Req.rerank_k ELSE Req.k
        IN  /\ Len(Cands) <= Req.k
            /\ Ids(Resp.results) = Ids(SubSeq(Cands, 1, Min(n, Len(Cands))))
            /\ Resp.reranked = Req.rerank
            /\ \A i \in 1..Len(searchCalls) : searchCalls[i] # "rerank_batch"

\* rerank requested with rerank_k below the number of ranked candidates
C9_Witness ==
    /\ Returned /\ candidates # None
    /\ Req.rerank
    /\ 0 < Req.rerank_k /\ Req.rerank_k < Len(Cands)
    /\ Len(Resp.results) = Req.rerank_k

\* C10: load_or_compute_embeddings calls load_embeddings; when that returns
\* None it then calls compute_document_embeddings and save_embeddings with
\* the computed vectors; otherwise the cached sequence is used as it is and
\* neither is called
C10_LoadOrCompute ==
    [][ pc = "documents_loaded" =>
            IF cache = None
            THEN /\ initCalls' = <<"load_embeddings", "compute_document_embeddings", "save_embeddings">>
                 /\ embeddings' = compute_document_embeddings(documents)
                 /\ cache' = Some(embeddings')
            ELSE /\ initCalls' = <<"load_embeddings">>
                 /\ embeddings' = The(cache)
                 /\ cache' = cache
      ]_vars

\* an engine built from a non-empty cache that differs from what compute
\* would have produced
C10_Witness ==
    /\ pc = "ready"
    /\ initCalls = <<"load_embeddings">>
    /\ embeddings # <<>>
    /\ embeddings # compute_document_embeddings(documents)

====
